---- MODULE Spec2Model ----
(***************************************************************************)
(* The Architect's Mirror (.cursor/hooks/mirror.py).                       *)
(*                                                                         *)
(* A source file is a sequence of lines; a line is an indentation level    *)
(* and one statement.  Text is a sequence of one-character strings, so     *)
(* that prefix, suffix, strip and truncation are computed on characters.   *)
(* ast.parse is modelled by an indentation-stack parser over the lines,    *)
(* the syntax tree is the sequence of its nodes in document order with a   *)
(* parent pointer each, and ast.walk is the deque loop of the library.     *)
(***************************************************************************)
EXTENDS Integers, Sequences, FiniteSets, TLC

VARIABLES
    pc,         \* position of the running call
    ret,        \* where SourceFile.scan returns to
    cli_mode,   \* main: len(sys.argv) > 1
    stdin,      \* main: the payload on standard input
    hook_input, \* main: the parsed HookInput
    disk,       \* the edited file on disk: state and content
    rules_dir,  \* the entries of RULES_DIR
    source,     \* the SourceFile under scan
    tree,       \* SourceFile.scan: result of ast.parse
    todo,       \* ast.walk: the deque of nodes still to visit
    signals,    \* SourceFile.scan: the list of signals
    visited,    \* history: the nodes ast.walk has yielded, in order
    emitted,    \* history: for each signal, the node it was detected on
    returned,   \* history: the value of every finished scan call
    raised,     \* an exception escaped the running call
    result,     \* main: the ScanResult
    stdout,     \* main: what was printed, in order
    feedback,   \* FEEDBACK_FILE: existence and content
    reads,      \* history: source paths read by the current invocation
    rules,      \* main: the rules discover_rules returned
    exit_code,  \* main: the exit status, -1 while running
    runs,       \* number of invocations started
    rule_pc,    \* rule catalog: position of the caller of construct and scan
    requested,  \* rule catalog: the definition last given to construct
    catalog,    \* rule catalog: the rules constructed, in order
    violations, \* scan(source, rules): the violations yielded
    matched,    \* history: for each violation, its node and its rule's index
    batch_pc,    \* batch: position of the batch scan
    batch_files, \* batch: the files of the batch, in the order of the sequential scan
    workers,     \* batch: for each file, the state of the scan call running on it
    merged,      \* batch: the violations of the finished scans, as they came in
    batch_out    \* batch: the violation list handed on

hook_vars == <<pc, ret, cli_mode, stdin, hook_input, disk, rules_dir, source, tree,
               todo, signals, visited, emitted, returned, raised, result, stdout,
               feedback, reads, rules, exit_code, runs>>

rule_vars == <<rule_pc, requested, catalog, violations, matched>>

batch_vars == <<batch_pc, batch_files, workers, merged, batch_out>>

vars == <<hook_vars, rule_vars, batch_vars>>

----------------------------------------------------------------------------
(* Bounds *)

MaxLines == 3
MainLines == 2
MaxIndent == 1
MaxScans == 2
MaxRuns == 2
DisplayLimit == 1
AnnLines == 2
ClassIndent == 2
ImportLines == 2
MaxRules == 1
MaxGlobs == 2
MaxBatch == 2

----------------------------------------------------------------------------
(* Text *)

RECURSIVE Spaces(_)
Spaces(n) == IF n = 0 THEN <<>> ELSE <<" ">> \o Spaces(n - 1)

StartsWith(s, p) == Len(s) >= Len(p) /\ SubSeq(s, 1, Len(p)) = p

\* p occurs anywhere in s: the search without the anchor at the end
FoundIn(s, p) == \E k \in 1..(Len(s) - Len(p) + 1) : SubSeq(s, k, k + Len(p) - 1) = p

EndsWith(s, p) == Len(s) >= Len(p) /\ SubSeq(s, Len(s) - Len(p) + 1, Len(s)) = p

Take(s, n) == SubSeq(s, 1, IF Len(s) < n THEN Len(s) ELSE n)

RECURSIVE LStrip(_)
LStrip(s) == IF s # <<>> /\ Head(s) = " " THEN LStrip(Tail(s)) ELSE s

RECURSIVE RStrip(_)
RStrip(s) ==
    IF s # <<>> /\ s[Len(s)] = " " THEN RStrip(SubSeq(s, 1, Len(s) - 1)) ELSE s

Strip(s) == RStrip(LStrip(s))

----------------------------------------------------------------------------
(* Statements of the governed language, as the lexer would hand them over.  *)
(* kind: the statement's syntax; name: the declared or bound identifier;    *)
(* ann: the identifier of the annotation; value: the default value.         *)

Chars(kind) ==
    CASE kind = "def"     -> <<"d","e","f"," ">>
      [] kind = "class"   -> <<"c","l","a","s","s"," ">>
      [] kind = "raise"   -> <<"r","a","i","s","e"," ","E","(",")">>
      [] kind = "await"   -> <<"a","w","a","i","t"," ","g","(",")">>
      [] kind = "pass"    -> <<"p","a","s","s">>
      [] kind = "try"     -> <<"t","r","y",":">>
      [] kind = "except"  -> <<"e","x","c","e","p","t",":">>
      [] kind = "invalid" -> <<"d","e","f"," ","b","(">>
      [] kind = "import"  -> <<"i","m","p","o","r","t"," ">>
      [] kind = "from"    -> <<"f","r","o","m"," ">>
      [] OTHER            -> <<>>

ValueChars(value) ==
    CASE value = "None"  -> <<" ","="," ","N","o","n","e">>
      [] value = "Field" -> <<" ","="," ","F","i","e","l","d","(",")">>
      [] value = "True"  -> <<" ","="," ","T","r","u","e">>
      [] value = "Call"  -> <<" ","="," ","S","(",")">>
      [] OTHER           -> <<>>

Stmt(kind, name, ann, value) ==
    [kind |-> kind, name |-> name, ann |-> ann, value |-> value,
     text |-> CASE kind = "def"   -> Chars(kind) \o name \o <<"(",")",":">>
                [] kind = "class" -> Chars(kind) \o name \o <<":">>
                [] kind = "ann"   -> name \o <<":"," ">> \o ann \o ValueChars(value)
                [] kind = "import" -> Chars(kind) \o name
                [] kind = "from"  -> Chars(kind) \o (IF value = "relative" THEN <<".">> ELSE <<>>)
                                     \o name \o <<" ","i","m","p","o","r","t"," ","x">>
                [] OTHER          -> Chars(kind)]

Simple(kind) == Stmt(kind, <<>>, <<>>, "absent")

n_f == <<"f">>
n_validate_f == <<"v","a","l","i","d","a","t","e","_","f">>
n_User == <<"U","s","e","r">>
n_UserManager == <<"U","s","e","r","M","a","n","a","g","e","r">>
n_ManagerHub == <<"M","a","n","a","g","e","r","H","u","b">>
n_is_ok == <<"i","s","_","o","k">>
n_age == <<"a","g","e">>
m_boto3 == <<"b","o","t","o","3">>
m_pydantic == <<"p","y","d","a","n","t","i","c">>
m_domain_entity == <<"d","o","m","a","i","n",".","e","n","t","i","t","y">>
m_os_path == <<"o","s",".","p","a","t","h">>
t_bool == <<"b","o","o","l">>
t_int == <<"i","n","t">>
t_Status == <<"S","t","a","t","u","s">>

IsHeader(stmt) == stmt.kind \in {"def", "class", "try", "except"}

\* The statements sources are drawn from when SourceFile.scan is called directly.
ScanStmts ==
    { Simple("raise"), Simple("await"), Simple("invalid"),
      Stmt("def", n_f, <<>>, "absent"),
      Stmt("class", n_UserManager, <<>>, "absent"),
      Stmt("ann", n_is_ok, t_bool, "True") }

\* The statements of the files main() is run on.
MainStmts ==
    { Simple("raise"), Simple("invalid"), Stmt("def", n_f, <<>>, "absent") }

\* Class declarations, with and without a service suffix, and a body for them.
ClassStmts ==
    { Stmt("class", n_UserManager, <<>>, "absent"),
      Stmt("class", n_User, <<>>, "absent"),
      Stmt("class", n_ManagerHub, <<>>, "absent"),
      Simple("pass") }

\* Annotated bindings of a class body: every name with every annotation and
\* every default.
AnnStmts ==
    { Stmt("ann", n, t, v) : n \in {n_is_ok, n_age}, t \in {t_bool, t_Status},
                             v \in {"absent", "None", "Field", "True", "Call"} }
    \cup { Stmt("class", n_User, <<>>, "absent") }

\* Import statements: absolute ones of a module the pattern of the tests
\* rejects, of two it allows and of a standard-library module, and a
\* relative one of a module the pattern rejects.
ImportStmts ==
    { Stmt("import", m_boto3, <<>>, "absolute"),
      Stmt("import", m_pydantic, <<>>, "absolute"),
      Stmt("import", m_os_path, <<>>, "absolute"),
      Stmt("from", m_domain_entity, <<>>, "absolute"),
      Stmt("from", m_boto3, <<>>, "relative") }

Lines(stmts) == [indent : 0..MaxIndent, stmt : stmts]

RECURSIVE SeqsUpTo(_, _)
SeqsUpTo(S, n) ==
    IF n = 0 THEN {<<>>}
    ELSE LET shorter == SeqsUpTo(S, n - 1)
         IN  shorter \cup {Append(s, x) : s \in {t \in shorter : Len(t) = n - 1}, x \in S}

Contents(stmts, n) == SeqsUpTo(Lines(stmts), n)

\* Sources of import statements, all at module level.
ImportContents == SeqsUpTo([indent : {0}, stmt : ImportStmts], ImportLines)

\* Sources of class declarations, nested up to ClassIndent levels.
ClassContents == SeqsUpTo([indent : 0..ClassIndent, stmt : ClassStmts], MaxLines)

\* The text of a line: four spaces for each indentation level, then the statement.
LineText(line) == Spaces(4 * line.indent) \o line.stmt.text

\* str.splitlines on the content
splitlines(content) == [i \in DOMAIN content |-> LineText(content[i])]

----------------------------------------------------------------------------
(* ast.parse: the syntax tree is the sequence of its nodes in document      *)
(* (pre-order) position, each with the position of its parent.  The        *)
(* expression-context nodes (Load, Store) carry no line and match no case   *)
(* of _detect_signal; they are left out of the tree.                        *)

NodeKind(stmt) ==
    CASE stmt.kind = "def"    -> "FunctionDef"
      [] stmt.kind = "class"  -> "ClassDef"
      [] stmt.kind = "try"    -> "Try"
      [] stmt.kind = "except" -> "ExceptHandler"
      [] stmt.kind = "raise"  -> "Raise"
      [] stmt.kind = "await"  -> "Expr"
      [] stmt.kind = "ann"    -> "AnnAssign"
      [] stmt.kind = "import" -> "Import"
      [] stmt.kind = "from"   -> "ImportFrom"
      [] OTHER                -> "Pass"

Sub(kind, depth) == [kind |-> kind, depth |-> depth]

\* The nodes below a statement other than the statements of its body, in
\* field order, each with its depth below the statement.
SubNodes(stmt) ==
    CASE stmt.kind = "def"   -> <<Sub("arguments", 1)>>
      [] stmt.kind \in {"import", "from"} -> <<Sub("alias", 1)>>
      [] stmt.kind = "raise" -> <<Sub("Call", 1), Sub("Name", 2)>>
      [] stmt.kind = "await" -> <<Sub("Await", 1), Sub("Call", 2), Sub("Name", 3)>>
      [] stmt.kind = "ann"   ->
            <<Sub("Name", 1), Sub("Name", 1)>> \o
            (CASE stmt.value = "absent"           -> <<>>
               [] stmt.value \in {"None", "True"} -> <<Sub("Constant", 1)>>
               [] OTHER                           -> <<Sub("Call", 1), Sub("Name", 2)>>)
      [] OTHER -> <<>>

Node(kind, lineno, parent, stmt) ==
    [kind |-> kind, lineno |-> lineno, parent |-> parent,
     name |-> stmt.name, ann |-> stmt.ann, value |-> stmt.value]

ModuleNode == Node("Module", 0, 0, Simple("pass"))

\* The nodes of one statement: the statement, then its sub-nodes.
StmtNodes(stmt, lineno, parent, at) ==
    LET subs == SubNodes(stmt)
        up(i) == IF subs[i].depth = 1 THEN at
                 ELSE at + CHOOSE j \in 1..(i - 1) :
                        /\ subs[j].depth = subs[i].depth - 1
                        /\ \A k \in (j + 1)..(i - 1) : subs[k].depth # subs[i].depth - 1
    IN  <<Node(NodeKind(stmt), lineno, parent, stmt)>> \o
        [i \in 1..Len(subs) |-> Node(subs[i].kind, lineno, up(i), Simple("pass"))]

Frame(indent, owner) == [indent |-> indent, owner |-> owner, try |-> 0]

ParseStart ==
    [ok |-> TRUE, nodes |-> <<ModuleNode>>, stack |-> <<Frame(0, 1)>>, expect |-> 0]

ParseFail(st) == [st EXCEPT !.ok = FALSE]

\* The block a line at indentation d belongs to: the stack after INDENT or
\* DEDENT, or <<>> when the indentation is an error.
Reindent(st, d) ==
    LET stack == st.stack
        top == stack[Len(stack)]
    IN  IF st.expect # 0
        THEN IF d > top.indent THEN Append(stack, Frame(d, st.expect)) ELSE <<>>
        ELSE IF d > top.indent THEN <<>>
        ELSE LET keep == {j \in 1..Len(stack) : stack[j].indent = d}
             IN  IF keep = {} THEN <<>>
                 ELSE LET j == CHOOSE x \in keep : TRUE
                      IN  IF \E k \in (j + 1)..Len(stack) : stack[k].try # 0
                          THEN <<>>
                          ELSE SubSeq(stack, 1, j)

ParseLine(st, lineno, line) ==
    LET stmt == line.stmt
        stack == Reindent(st, line.indent)
    IN  IF ~st.ok THEN st
        ELSE IF stmt.kind = "invalid" \/ stack = <<>> THEN ParseFail(st)
        ELSE LET top == stack[Len(stack)]
                 at == Len(st.nodes) + 1
                 parent == IF stmt.kind = "except" THEN top.try ELSE top.owner
             IN  IF (top.try # 0) # (stmt.kind = "except") THEN ParseFail(st)
                 ELSE [ok |-> TRUE,
                       nodes |-> st.nodes \o StmtNodes(stmt, lineno, parent, at),
                       stack |-> [stack EXCEPT ![Len(stack)].try =
                                     IF stmt.kind = "try" THEN at ELSE 0],
                       expect |-> IF IsHeader(stmt) THEN at ELSE 0]

RECURSIVE ParseFrom(_, _, _)
ParseFrom(st, content, i) ==
    IF i > Len(content) THEN st
    ELSE ParseFrom(ParseLine(st, i, content[i]), content, i + 1)

\* ast.parse(content): the tree, or SyntaxError.
ast_parse(content) ==
    LET st == ParseFrom(ParseStart, content, 1)
    IN  IF st.ok /\ st.expect = 0 /\ \A k \in DOMAIN st.stack : st.stack[k].try = 0
        THEN [ok |-> TRUE, nodes |-> st.nodes]
        ELSE [ok |-> FALSE, nodes |-> <<>>]

\* ast.iter_child_nodes(node), in field order
iter_child_nodes(nodes, n) ==
    LET kids == {i \in DOMAIN nodes : nodes[i].parent = n}
        RECURSIVE Ordered(_)
        Ordered(S) == IF S = {} THEN <<>>
                      ELSE LET m == CHOOSE x \in S : \A y \in S : x <= y
                           IN  <<m>> \o Ordered(S \ {m})
    IN  Ordered(kids)

----------------------------------------------------------------------------
(* SourceFile *)

SnippetWidth == 60

Ellipsis == <<".", ".", ".">>

\* get_line cutting the line to the width before it strips it
get_line_cut_first(lines, lineno) ==
    IF 1 <= lineno /\ lineno <= Len(lines)
    THEN LET line == lines[lineno]
         IN  IF Len(line) > SnippetWidth THEN Strip(Take(line, SnippetWidth)) \o Ellipsis
             ELSE Strip(line)
    ELSE <<>>

\* SourceFile._make_line_getter: get_line(lineno) over the split lines
get_line(lines, lineno) ==
    IF 1 <= lineno /\ lineno <= Len(lines)
    THEN LET line == Strip(lines[lineno])
         IN  IF Len(line) > SnippetWidth THEN Take(line, SnippetWidth) \o Ellipsis
             ELSE line
    ELSE <<>>

RECURSIVE Fill(_)
Fill(n) == IF n <= 0 THEN <<>> ELSE <<"x">> \o Fill(n - 1)

\* A flag name of n characters.
LongName(n) == <<"i","s","_">> \o Fill(n - 3)

\* Bindings whose line is exactly as wide as a snippet and one character
\* wider, a short one, a class to put them in, and a raise statement
\* followed by blanks.
SnippetStmts ==
    { Stmt("ann", LongName(SnippetWidth - 6), t_bool, "absent"),
      Stmt("ann", LongName(SnippetWidth - 5), t_bool, "absent"),
      Stmt("ann", n_is_ok, t_bool, "absent"),
      Stmt("class", n_User, <<>>, "absent"),
      [Simple("raise") EXCEPT !.text = @ \o <<" ", " ">>] }

\* The catalog of signal kinds, in declaration order.
SIGNAL_PATTERNS ==
    << [kind |-> "validate_function", pattern_id |-> "01"],
       [kind |-> "primitive_type",    pattern_id |-> "01"],
       [kind |-> "field_default",     pattern_id |-> "01"],
       [kind |-> "boolean_flag",      pattern_id |-> "02"],
       [kind |-> "try_block",         pattern_id |-> "03"],
       [kind |-> "raise_stmt",        pattern_id |-> "03"],
       [kind |-> "await_expr",        pattern_id |-> "04"],
       [kind |-> "service_class",     pattern_id |-> "04"] >>

ServiceSuffixes ==
    { <<"S","e","r","v","i","c","e">>, <<"M","a","n","a","g","e","r">>,
      <<"H","a","n","d","l","e","r">>, <<"P","r","o","c","e","s","s","o","r">> }

ValidatePrefixes ==
    { <<"v","a","l","i","d","a","t","e","_">>, <<"c","h","e","c","k","_">>,
      <<"v","e","r","i","f","y","_">> }

PrimitiveTypes ==
    { <<"s","t","r">>, <<"i","n","t">>, <<"b","o","o","l">>, <<"f","l","o","a","t">> }

\* _is_safe_default taking every call for a call of Field
_is_safe_default_any_call(value) == value \in {"None", "Field", "Call"}

\* SourceFile._is_safe_default: the constant None, or a call of the name Field
_is_safe_default(value) == value \in {"None", "Field"}

\* The case patterns and guards of SourceFile._detect_signal, one per signal kind.
Matches(node, kind) ==
    CASE kind = "try_block"  -> node.kind = "Try"
      [] kind = "raise_stmt" -> node.kind = "Raise"
      [] kind = "await_expr" -> node.kind = "Await"
      [] kind = "service_class" ->
            node.kind = "ClassDef" /\ \E w \in ServiceSuffixes : EndsWith(node.name, w)
      [] kind = "validate_function" ->
            node.kind = "FunctionDef" /\ \E w \in ValidatePrefixes : StartsWith(node.name, w)
      [] kind = "boolean_flag" ->
            node.kind = "AnnAssign" /\ StartsWith(node.name, <<"i","s","_">>)
      [] kind = "primitive_type" ->
            node.kind = "AnnAssign" /\ node.ann \in PrimitiveTypes
      [] kind = "field_default" ->
            node.kind = "AnnAssign" /\ node.value # "absent" /\ ~_is_safe_default(node.value)
      [] OTHER -> FALSE

\* Signal with the line counted from zero
SignalFromZero(kind, pattern_id, node, lines) ==
    [kind |-> kind, pattern_id |-> pattern_id, line |-> node.lineno - 1,
     content |-> get_line(lines, node.lineno),
     hint |-> IF kind = "primitive_type" THEN <<kind, node.ann>> ELSE <<kind>>]

Signal(kind, pattern_id, node, lines) ==
    [kind |-> kind, pattern_id |-> pattern_id, line |-> node.lineno,
     content |-> get_line(lines, node.lineno),
     hint |-> IF kind = "primitive_type" THEN <<kind, node.ann>> ELSE <<kind>>]

\* The cases with boolean_flag and primitive_type exchanged.
DetectOrderSwapped ==
    << "try_block", "raise_stmt", "await_expr", "service_class", "validate_function",
       "primitive_type", "boolean_flag", "field_default" >>

\* The order of the cases of the match statement.
DetectOrder ==
    << "try_block", "raise_stmt", "await_expr", "service_class", "validate_function",
       "boolean_flag", "primitive_type", "field_default" >>

PatternIdOf(kind) ==
    CASE kind \in {"try_block", "raise_stmt"}         -> "03"
      [] kind \in {"await_expr", "service_class"}     -> "04"
      [] kind = "boolean_flag"                        -> "02"
      [] OTHER                                        -> "01"

\* SourceFile._detect_signal: the signal of the first case the node matches, as
\* a sequence of one; None is the empty sequence.
_detect_signal(node, lines) ==
    LET hits == {i \in DOMAIN DetectOrder : Matches(node, DetectOrder[i])}
    IN  IF hits = {} THEN <<>>
        ELSE LET first == CHOOSE i \in hits : \A j \in hits : i <= j
             IN  <<Signal(DetectOrder[first], PatternIdOf(DetectOrder[first]), node, lines)>>

\* SourceFile.scan without the except clause: SyntaxError escapes
OnSyntaxErrorPropagate == [raised |-> TRUE, value |-> <<>>]

\* SourceFile.scan: what the handler of SyntaxError does
OnSyntaxError == [raised |-> FALSE, value |-> <<>>]

\* The list of an earlier call kept, as a list held outside the call would be.
SignalListKept(old) == old

\* SourceFile.scan: the list the signals are collected in, new in every call
SignalList(old) == <<>>

\* ast.walk: todo = deque([node]); popleft, then extend with the children
walk_start == <<1>>

\* The loop over the statements of the module body only, as tree.body would give
walk_next_body(nodes, queue) ==
    Tail(queue) \o (IF Head(queue) = 1 THEN iter_child_nodes(nodes, 1) ELSE <<>>)

walk_next(nodes, queue) == Tail(queue) \o iter_child_nodes(nodes, Head(queue))

----------------------------------------------------------------------------
(* Paths, globs and rules *)

RECURSIVE ReplaceStars(_)
\* glob.replace("**", "*")
ReplaceStars(g) ==
    IF g = <<>> THEN <<>>
    ELSE IF Len(g) >= 2 /\ g[1] = "*" /\ g[2] = "*"
         THEN <<"*">> \o ReplaceStars(SubSeq(g, 3, Len(g)))
         ELSE <<Head(g)>> \o ReplaceStars(Tail(g))

RECURSIVE fnmatch(_, _)
\* fnmatch.fnmatch(name, pat) with the wildcards * and ?
fnmatch(name, pat) ==
    IF pat = <<>> THEN name = <<>>
    ELSE IF Head(pat) = "*"
         THEN fnmatch(name, Tail(pat)) \/ (name # <<>> /\ fnmatch(Tail(name), pat))
         ELSE /\ name # <<>>
              /\ Head(pat) = "?" \/ Head(pat) = Head(name)
              /\ fnmatch(Tail(name), Tail(pat))

\* matches_path asking every glob to match
matches_path_all(rule, file_path) ==
    \A i \in DOMAIN rule.globs :
        LET pattern == ReplaceStars(rule.globs[i])
        IN  fnmatch(file_path, <<"*">> \o pattern) \/ fnmatch(file_path, pattern)

\* RuleRef.matches_path
matches_path(rule, file_path) ==
    \E i \in DOMAIN rule.globs :
        LET pattern == ReplaceStars(rule.globs[i])
        IN  fnmatch(file_path, <<"*">> \o pattern) \/ fnmatch(file_path, pattern)

RECURSIVE PathName(_)
\* Path.name: the last component
PathName(path) ==
    IF \E i \in DOMAIN path : path[i] = "/"
    THEN PathName(Tail(path))
    ELSE path

RECURSIVE applicable(_, _, _)
\* tuple(r for r in rules if r.matches_path(path))
applicable(rs, path, i) ==
    IF i > Len(rs) THEN <<>>
    ELSE (IF matches_path(rs[i], path) THEN <<rs[i]>> ELSE <<>>)
         \o applicable(rs, path, i + 1)

\* FileProcessor.process, after the scan: the ScanResult
process(rs, src, sigs) ==
    [file_path |-> src.path, signals |-> sigs,
     applicable_rules |-> applicable(rs, src.path, 1)]

\* read_file: ContentLoaded, or ContentUnreadable on OSError and UnicodeDecodeError
read_file(file) ==
    IF file.state = "readable"
    THEN [kind |-> "loaded", content |-> file.content]
    ELSE [kind |-> "unreadable", content |-> <<>>]

\* RawRuleFrontmatter.parse_globs over the content of a RULE.md
parse_globs(content) ==
    IF ~content.opens \/ ~content.closes \/ ~content.has_globs
    THEN [kind |-> "not_found", globs |-> <<>>]
    ELSE [kind |-> "parsed", globs |-> content.globs]

Digits == {"0", "1", "2", "3", "4", "5", "6", "7", "8", "9"}

pattern_prefix == <<"p","a","t","t","e","r","n","-">>

RECURSIVE LeadingDigits(_)
LeadingDigits(s) ==
    IF s # <<>> /\ Head(s) \in Digits THEN <<Head(s)>> \o LeadingDigits(Tail(s)) ELSE <<>>

\* The body of the loop of discover_rules for one directory entry: the
\* RuleRef it appends, if any.
rule_of(entry) ==
    LET digits == LeadingDigits(SubSeq(entry.name, Len(pattern_prefix) + 1, Len(entry.name)))
        loaded == read_file(entry.rule_file)
    IN  IF ~entry.is_dir \/ ~StartsWith(entry.name, pattern_prefix) THEN <<>>
        ELSE IF entry.rule_file.state = "missing" THEN <<>>
        ELSE IF digits = <<>> THEN <<>>
        ELSE IF loaded.kind = "unreadable" THEN <<>>
        ELSE << [pattern_id |-> digits, name |-> entry.name,
                 globs |-> parse_globs(loaded.content).globs,
                 content |-> loaded.content] >>

RECURSIVE FlatMapRules(_, _)
FlatMapRules(entries, i) ==
    IF i > Len(entries) THEN <<>>
    ELSE rule_of(entries[i]) \o FlatMapRules(entries, i + 1)

\* discover_rules leaving its loop at the first rule file it cannot read
discover_rules_break(dir) ==
    LET bad == {i \in DOMAIN dir.entries :
                    /\ dir.entries[i].is_dir
                    /\ StartsWith(dir.entries[i].name, pattern_prefix)
                    /\ dir.entries[i].rule_file.state \in {"unreadable", "undecodable"}}
        stop == IF bad = {} THEN Len(dir.entries)
                ELSE (CHOOSE i \in bad : \A j \in bad : i <= j) - 1
    IN  IF ~dir.exists THEN <<>> ELSE FlatMapRules(SubSeq(dir.entries, 1, stop), 1)

\* discover_rules: dir.entries is the listing of RULES_DIR as sorted() returns it
discover_rules(dir) ==
    IF ~dir.exists THEN <<>> ELSE FlatMapRules(dir.entries, 1)

----------------------------------------------------------------------------
(* Hook input and output *)

NoPath == <<>>

NoStatus == "none"

Statuses == {"completed", "aborted", "error"}

RawHookInput(file_path, status) == [file_path |-> file_path, status |-> status]

FileEditInput(file_path) == [kind |-> "file_edit", file_path |-> file_path, status |-> NoStatus]

StopInput(status) == [kind |-> "stop", file_path |-> NoPath, status |-> status]

EmptyInput == [kind |-> "empty", file_path |-> NoPath, status |-> NoStatus]

\* to_domain with the two tests exchanged: the file path is looked at before the status.
to_domain_path_first(raw) ==
    IF raw.file_path # NoPath THEN FileEditInput(raw.file_path)
    ELSE IF raw.status # NoStatus THEN StopInput(raw.status)
    ELSE EmptyInput

\* RawHookInput.to_domain
to_domain(raw) ==
    IF raw.status = "aborted" THEN StopInput("aborted")
    ELSE IF raw.status # NoStatus THEN StopInput(raw.status)
    ELSE IF raw.file_path # NoPath THEN FileEditInput(raw.file_path)
    ELSE EmptyInput

\* parse_stdin without the except clause's fallback: a payload that does not
\* validate keeps its fields.
parse_stdin_unchecked(payload) ==
    IF payload.kind = "none" THEN RawHookInput(NoPath, NoStatus)
    ELSE RawHookInput(payload.file_path, payload.status)

\* main, steps 2 and 3: the RawHookInput of the text on standard input.  Empty
\* input, and text model_validate_json rejects, give the RawHookInput of no fields.
parse_stdin(payload) ==
    IF payload.kind = "json" THEN RawHookInput(payload.file_path, payload.status)
    ELSE RawHookInput(NoPath, NoStatus)

NoOutput == [kind |-> "no_output", agent_message |-> <<>>]

MessageOutput(msg) == [kind |-> "message", agent_message |-> msg]

\* MessageOutput.to_json and NoOutput.to_json
to_json(output) ==
    IF output.kind = "message" THEN <<"json", <<"agent_message", output.agent_message>>>>
    ELSE <<"json", <<>>>>

RECURSIVE SignalPartsCapped(_, _)
\* The signal entries cut off after DisplayLimit signals
SignalPartsCapped(sigs, i) ==
    IF i > Len(sigs) \/ i > DisplayLimit THEN <<>>
    ELSE << <<"signal", <<sigs[i].line, sigs[i].kind, sigs[i].content>> >>,
            <<"hint", sigs[i].hint>>,
            <<"related", sigs[i].pattern_id>> >> \o SignalPartsCapped(sigs, i + 1)

RECURSIVE SignalParts(_, _)
\* ScanResult.format_message: for sig in self.signals
SignalParts(sigs, i) ==
    IF i > Len(sigs) THEN <<>>
    ELSE << <<"signal", <<sigs[i].line, sigs[i].kind, sigs[i].content>> >>,
            <<"hint", sigs[i].hint>>,
            <<"related", sigs[i].pattern_id>> >> \o SignalParts(sigs, i + 1)

RECURSIVE RuleParts(_, _)
RuleParts(rs, i) ==
    IF i > Len(rs) THEN <<>>
    ELSE << <<"rule_open", <<rs[i].pattern_id, rs[i].name>> >>,
            <<"rule_content", rs[i].content>>,
            <<"rule_close">> >> \o RuleParts(rs, i + 1)

\* The guard without its second conjunct: the applicable rules are not looked at.
NothingToReportSignalsOnly(res) == res.signals = <<>>

\* ScanResult.format_message: the guard of the early return
NothingToReport(res) == res.signals = <<>> /\ res.applicable_rules = <<>>

\* ScanResult.format_message: the parts of the message, in order
format_message(res) ==
    IF NothingToReport(res) THEN NoOutput
    ELSE MessageOutput(
            << <<"header", PathName(res.file_path)>> >>
            \o (IF res.signals # <<>>
                THEN << <<"signals_title">>, <<"signals_note">> >> \o SignalParts(res.signals, 1)
                ELSE <<>>)
            \o (IF res.applicable_rules # <<>>
                THEN << <<"rules_title">>, <<"rules_note">> >> \o RuleParts(res.applicable_rules, 1)
                ELSE <<>>)
            \o << <<"judgment_title">>, <<"judgment">> >>)

\* write_feedback
write_feedback(file, content) == [exists |-> TRUE, content |-> <<"text", content>>]

\* clear_feedback without the write: the file is left as it is
clear_feedback_keep(file) == file

\* clear_feedback without the test: the empty text is written in every case
clear_feedback_create(file) == [exists |-> TRUE, content |-> <<"text", <<>>>>]

\* clear_feedback
clear_feedback(file) == IF file.exists THEN [exists |-> TRUE, content |-> <<"text", <<>>>>] ELSE file

----------------------------------------------------------------------------
(* The values the environment is drawn from *)

p_domain == <<"d","/","u","/","a",".","p","y">>
p_other == <<"t",".","p","y">>
g_domain == <<"d","/","*","*","/","*",".","p","y">>
g_py == <<"*",".","p","y">>
g_service == <<"s","/","*","*","/","*",".","p","y">>
p_deep == <<"d","/","u","/","v","/","a",".","p","y">>
p_service == <<"s","/","h","/","a",".","p","y">>
p_config == <<"c","/","s",".","t","x","t">>

\* The paths and the rules RuleRef.matches_path is called with directly.
GlobPaths == {p_domain, p_deep, p_service, p_config, p_other}

RuleRef(globs) ==
    [pattern_id |-> <<"0","1">>, name |-> pattern_prefix \o <<"0","1">>, globs |-> globs,
     content |-> [opens |-> TRUE, closes |-> TRUE, has_globs |-> globs # <<>>,
                  globs |-> globs]]

GlobRules == {RuleRef(globs) : globs \in SeqsUpTo({g_domain, g_service, g_py}, MaxGlobs)}

Paths == {p_domain, p_other}

NoPayload == [kind |-> "none", file_path |-> NoPath, status |-> NoStatus]

\* What can arrive on standard input: nothing, a JSON object with any of the
\* two fields, and text that model_validate_json rejects (cut-off JSON naming a
\* file, a status outside the literal).
Payloads ==
    {NoPayload}
    \cup [kind : {"json"}, file_path : Paths \cup {NoPath}, status : Statuses \cup {NoStatus}]
    \cup [kind : {"malformed"}, file_path : {p_domain, NoPath}, status : {"bogus", NoStatus}]

File(state, content) == [state |-> state, content |-> content]

Disks(stmts, n) ==
    {File("readable", c) : c \in Contents(stmts, n)}
    \cup {File(st, <<>>) : st \in {"missing", "unreadable", "undecodable"}}

RuleText(globs) == [opens |-> TRUE, closes |-> TRUE, has_globs |-> TRUE, globs |-> globs]

Entry(name, is_dir, rule_file) == [name |-> name, is_dir |-> is_dir, rule_file |-> rule_file]

\* A RULE.md without frontmatter
NoFrontmatter == [opens |-> FALSE, closes |-> FALSE, has_globs |-> FALSE, globs |-> <<>>]

\* RULES_DIR absent; RULES_DIR with a plain file and one rule for d/**/*.py;
\* RULES_DIR where rule files that cannot be read or carry no frontmatter
\* stand before, between and after two rules that load.
RulesDirs ==
    { [exists |-> FALSE, entries |-> <<>>],
      [exists |-> TRUE,
       entries |-> << Entry(<<"R","E","A","D","M","E">>, FALSE, File("missing", <<>>)),
                      Entry(pattern_prefix \o <<"0","1">>, TRUE,
                            File("readable", RuleText(<<g_domain>>))) >>],
      [exists |-> TRUE,
       entries |-> << Entry(pattern_prefix \o <<"0","0">>, TRUE, File("unreadable", <<>>)),
                      Entry(pattern_prefix \o <<"0","1">>, TRUE,
                            File("readable", RuleText(<<g_domain>>))),
                      Entry(pattern_prefix \o <<"0","2">>, TRUE,
                            File("readable", NoFrontmatter)),
                      Entry(pattern_prefix \o <<"0","3">>, TRUE, File("missing", <<>>)),
                      Entry(pattern_prefix \o <<"0","4">>, TRUE, File("undecodable", <<>>)),
                      Entry(pattern_prefix \o <<"0","5">>, TRUE,
                            File("readable", RuleText(<<g_py>>))) >>] }

OldFeedback == [exists |-> TRUE, content |-> <<"text", << <<"old">> >> >>]

Feedbacks ==
    { [exists |-> FALSE, content |-> <<"text", <<>>>>],
      [exists |-> TRUE, content |-> <<"text", <<>>>>],
      OldFeedback }

NoSource == [path |-> NoPath, content |-> <<>>]

NoResult == [file_path |-> NoPath, signals |-> <<>>, applicable_rules |-> <<>>]

----------------------------------------------------------------------------
(* SourceFile.scan, one action for each iteration of its loop *)

\* scan up to the loop: parse, split the lines, start the walk
ScanCall ==
    /\ pc = "scan_call"
    /\ LET parsed == ast_parse(source.content)
       IN  IF parsed.ok
           THEN /\ tree' = parsed.nodes
                /\ todo' = walk_start
                /\ signals' = SignalList(signals)
                /\ pc' = "scan_walk"
                /\ UNCHANGED <<returned, raised, exit_code>>
           ELSE /\ tree' = <<>>
                /\ raised' = OnSyntaxError.raised
                /\ IF OnSyntaxError.raised
                   THEN /\ pc' = "raised"
                        /\ exit_code' = IF ret = "processed" THEN 1 ELSE exit_code
                        /\ UNCHANGED returned
                   ELSE /\ pc' = ret
                        /\ returned' = Append(returned, OnSyntaxError.value)
                        /\ UNCHANGED exit_code
                /\ UNCHANGED <<todo, signals>>
    /\ visited' = <<>>
    /\ emitted' = <<>>
    /\ UNCHANGED <<ret, cli_mode, stdin, hook_input, disk, rules_dir, source, result,
                   stdout, feedback, reads, rules, runs>>
    /\ UNCHANGED <<rule_vars, batch_vars>>

\* one iteration of: for node in ast.walk(tree)
ScanStep ==
    /\ pc = "scan_walk"
    /\ todo # <<>>
    /\ LET n == Head(todo)
           signal == _detect_signal(tree[n], splitlines(source.content))
       IN  /\ todo' = walk_next(tree, todo)
           /\ visited' = Append(visited, n)
           /\ signals' = signals \o signal
           /\ emitted' = emitted \o (IF signal # <<>> THEN <<n>> ELSE <<>>)
    /\ UNCHANGED <<pc, ret, cli_mode, stdin, hook_input, disk, rules_dir, source, tree,
                   returned, raised, result, stdout, feedback, reads, rules,
                   exit_code, runs>>
    /\ UNCHANGED <<rule_vars, batch_vars>>

\* return tuple(signals)
ScanReturn ==
    /\ pc = "scan_walk"
    /\ todo = <<>>
    /\ returned' = Append(returned, signals)
    /\ pc' = ret
    /\ UNCHANGED <<ret, cli_mode, stdin, hook_input, disk, rules_dir, source, tree, todo,
                   signals, visited, emitted, raised, result, stdout, feedback, reads,
                   rules, exit_code, runs>>
    /\ UNCHANGED <<rule_vars, batch_vars>>

\* The files scanned after the first one.
OtherFiles ==
    { [path |-> p_domain, content |-> <<[indent |-> 0, stmt |-> Simple("raise")]>>],
      [path |-> p_domain, content |-> <<[indent |-> 0, stmt |-> Stmt("def", n_f, <<>>, "absent")],
                                         [indent |-> 1, stmt |-> Simple("await")]>>],
      [path |-> p_domain, content |-> <<[indent |-> 0, stmt |-> Simple("invalid")]>>] }

\* the caller builds a SourceFile for another file and calls scan() on it
ScanOther ==
    /\ pc = "scan_idle"
    /\ Len(returned) < MaxScans
    /\ source' \in OtherFiles
    /\ pc' = "scan_call"
    /\ UNCHANGED <<ret, cli_mode, stdin, hook_input, disk, rules_dir, tree, todo,
                   signals, visited, emitted, returned, raised, result, stdout,
                   feedback, reads, rules, exit_code, runs>>
    /\ UNCHANGED <<rule_vars, batch_vars>>

\* the caller calls scan() on the same SourceFile once more
ScanAgain ==
    /\ pc = "scan_idle"
    /\ Len(returned) < MaxScans
    /\ pc' = "scan_call"
    /\ UNCHANGED <<ret, cli_mode, stdin, hook_input, disk, rules_dir, source, tree, todo,
                   signals, visited, emitted, returned, raised, result, stdout,
                   feedback, reads, rules, exit_code, runs>>
    /\ UNCHANGED <<rule_vars, batch_vars>>

----------------------------------------------------------------------------
(* main, one action for each step of an invocation *)

\* steps 1 to 3 in CLI mode: the argument is the edited file
MainCli ==
    /\ pc = "main"
    /\ \E p \in Paths :
        /\ cli_mode' = TRUE
        /\ stdin' = NoPayload
        /\ hook_input' = FileEditInput(p)
    /\ pc' = "dispatch"
    /\ UNCHANGED <<ret, disk, rules_dir, source, tree, todo, signals, visited, emitted,
                   returned, raised, result, stdout, feedback, reads, rules,
                   exit_code, runs>>
    /\ UNCHANGED <<rule_vars, batch_vars>>

\* steps 1 to 3 in hook mode: read standard input and parse it
MainHook ==
    /\ pc = "main"
    /\ \E payload \in Payloads :
        /\ cli_mode' = FALSE
        /\ stdin' = payload
        /\ hook_input' = to_domain(parse_stdin(payload))
    /\ pc' = "dispatch"
    /\ UNCHANGED <<ret, disk, rules_dir, source, tree, todo, signals, visited, emitted,
                   returned, raised, result, stdout, feedback, reads, rules,
                   exit_code, runs>>
    /\ UNCHANGED <<rule_vars, batch_vars>>

\* print(NoOutput(kind="no_output").to_json()) unless in CLI mode
PrintNoOutput == IF cli_mode THEN stdout ELSE Append(stdout, to_json(NoOutput))

\* case StopInput(status="aborted")
MainStopAborted ==
    /\ pc = "dispatch"
    /\ hook_input.kind = "stop" /\ hook_input.status = "aborted"
    /\ feedback' = clear_feedback(feedback)
    /\ stdout' = PrintNoOutput
    /\ pc' = "done"
    /\ exit_code' = 0
    /\ UNCHANGED <<ret, cli_mode, stdin, hook_input, disk, rules_dir, source, tree, todo,
                   signals, visited, emitted, returned, raised, result, reads, rules,
                   runs>>
    /\ UNCHANGED <<rule_vars, batch_vars>>

\* The empty event handled as a stop event is: the feedback file is cleared
MainEmptyClearing ==
    /\ pc = "dispatch"
    /\ hook_input.kind = "empty"
    /\ feedback' = clear_feedback(feedback)
    /\ stdout' = PrintNoOutput
    /\ pc' = "done"
    /\ exit_code' = 0
    /\ UNCHANGED <<ret, cli_mode, stdin, hook_input, disk, rules_dir, source, tree, todo,
                   signals, visited, emitted, returned, raised, result,
                   reads, rules, runs>>
    /\ UNCHANGED <<rule_vars, batch_vars>>

\* case EmptyInput()
MainEmpty ==
    /\ pc = "dispatch"
    /\ hook_input.kind = "empty"
    /\ stdout' = PrintNoOutput
    /\ pc' = "done"
    /\ exit_code' = 0
    /\ UNCHANGED <<ret, cli_mode, stdin, hook_input, disk, rules_dir, source, tree, todo,
                   signals, visited, emitted, returned, raised, result, feedback,
                   reads, rules, runs>>
    /\ UNCHANGED <<rule_vars, batch_vars>>

\* case FileEditInput, step 4: read the edited file
MainReadFile ==
    /\ pc = "dispatch"
    /\ hook_input.kind = "file_edit"
    /\ reads' = Append(reads, hook_input.file_path)
    /\ LET content_result == read_file(disk)
       IN  IF content_result.kind = "unreadable"
           THEN /\ pc' = "done"
                /\ exit_code' = 0
                /\ UNCHANGED source
           ELSE /\ source' = [path |-> hook_input.file_path,
                              content |-> content_result.content]
                /\ pc' = "discover"
                /\ UNCHANGED exit_code
    /\ UNCHANGED <<ret, cli_mode, stdin, hook_input, disk, rules_dir, tree, todo,
                   signals, visited, emitted, returned, raised, result, stdout,
                   feedback, rules, runs>>
    /\ UNCHANGED <<rule_vars, batch_vars>>

\* step 5: discover and load rules
MainDiscover ==
    /\ pc = "discover"
    /\ rules' = discover_rules(rules_dir)
    /\ pc' = "process"
    /\ UNCHANGED <<ret, cli_mode, stdin, hook_input, disk, rules_dir, source, tree, todo,
                   signals, visited, emitted, returned, raised, result, stdout,
                   feedback, reads, exit_code, runs>>
    /\ UNCHANGED <<rule_vars, batch_vars>>

\* step 6: FileProcessor.process calls source.scan()
MainProcess ==
    /\ pc = "process"
    /\ pc' = "scan_call"
    /\ ret' = "processed"
    /\ UNCHANGED <<cli_mode, stdin, hook_input, disk, rules_dir, source, tree, todo,
                   signals, visited, emitted, returned, raised, result, stdout,
                   feedback, reads, rules, exit_code, runs>>
    /\ UNCHANGED <<rule_vars, batch_vars>>

\* step 6: FileProcessor.process after the scan
MainProcessed ==
    /\ pc = "processed"
    /\ result' = process(rules, source, returned[Len(returned)])
    /\ pc' = "format"
    /\ UNCHANGED <<ret, cli_mode, stdin, hook_input, disk, rules_dir, source, tree, todo,
                   signals, visited, emitted, returned, raised, stdout, feedback,
                   reads, rules, exit_code, runs>>
    /\ UNCHANGED <<rule_vars, batch_vars>>

\* step 7: format and output
MainFormat ==
    /\ pc = "format"
    /\ LET output == format_message(result)
       IN  IF output.kind = "message"
           THEN /\ feedback' = write_feedback(feedback, output.agent_message)
                /\ stdout' = Append(stdout, IF cli_mode
                                            THEN <<"text", output.agent_message>>
                                            ELSE to_json(output))
           ELSE /\ feedback' = clear_feedback(feedback)
                /\ stdout' = Append(stdout, IF cli_mode
                                            THEN <<"text", << <<"no_signals">> >> >>
                                            ELSE to_json(output))
    /\ pc' = "done"
    /\ exit_code' = 0
    /\ UNCHANGED <<ret, cli_mode, stdin, hook_input, disk, rules_dir, source, tree, todo,
                   signals, visited, emitted, returned, raised, result, reads, rules,
                   runs>>
    /\ UNCHANGED <<rule_vars, batch_vars>>

\* case StopInput() with any other status
MainStop ==
    /\ pc = "dispatch"
    /\ hook_input.kind = "stop" /\ hook_input.status # "aborted"
    /\ feedback' = clear_feedback(feedback)
    /\ stdout' = PrintNoOutput
    /\ pc' = "done"
    /\ exit_code' = 0
    /\ UNCHANGED <<ret, cli_mode, stdin, hook_input, disk, rules_dir, source, tree, todo,
                   signals, visited, emitted, returned, raised, result, reads, rules,
                   runs>>
    /\ UNCHANGED <<rule_vars, batch_vars>>

\* the host runs the hook again: a new process over the same disk
MainAgain ==
    /\ pc = "done"
    /\ runs < MaxRuns
    /\ runs' = runs + 1
    /\ pc' = "main"
    /\ ret' = "processed"
    /\ cli_mode' = FALSE
    /\ stdin' = NoPayload
    /\ hook_input' = EmptyInput
    /\ source' = NoSource
    /\ tree' = <<>>
    /\ todo' = <<>>
    /\ signals' = <<>>
    /\ visited' = <<>>
    /\ emitted' = <<>>
    /\ returned' = <<>>
    /\ raised' = FALSE
    /\ result' = NoResult
    /\ stdout' = <<>>
    /\ reads' = <<>>
    /\ rules' = <<>>
    /\ exit_code' = -1
    /\ disk' \in {disk, File("unreadable", <<>>)}  \* the file may have become unreadable
    /\ UNCHANGED <<rules_dir, feedback>>
    /\ UNCHANGED <<rule_vars, batch_vars>>

----------------------------------------------------------------------------
(* RuleSpec, PatternMatcher and ScanPipeline: the rules that test_core.py    *)
(* constructs (ValidationRule) and scans with (scan(source, rules)).         *)
(* mirror.py defines neither; they follow sections 3, 4.1 and 4.2 of the     *)
(* specification.  A pattern is the text of a regular expression over        *)
(* literals, ^, $, .* at either end and one group of alternatives.           *)

RuleKinds ==
    {"import", "restricted_import", "node_usage", "class_name", "function_name",
     "type_annotation", "attribute_name", "attribute_default"}

p_allow == <<"^","(","p","y","d","a","n","t","i","c","|","d","o","m","a","i","n",")">>
p_manager == <<".","*","M","a","n","a","g","e","r","$">>
p_unclosed == <<"^","(","p","y","d","a","n","t","i","c">>
p_repeat == <<"*","M","a","n","a","g","e","r">>

Patterns == {p_allow, p_manager, p_unclosed, p_repeat}

RuleDef(kind, pattern) ==
    [id |-> "test-rule", name |-> "Test Rule", kind |-> kind, pattern |-> pattern,
     message |-> "Test Message"]

RuleDefs == {RuleDef(kind, pattern) : kind \in RuleKinds, pattern \in Patterns}

RECURSIVE Balanced(_, _)
\* every group that opens closes
Balanced(p, depth) ==
    IF p = <<>> THEN depth = 0
    ELSE IF Head(p) = "(" THEN Balanced(Tail(p), depth + 1)
    ELSE IF Head(p) = ")" THEN depth > 0 /\ Balanced(Tail(p), depth - 1)
    ELSE Balanced(Tail(p), depth)

Quantifiers == {"*", "+", "?"}

RECURSIVE Split(_, _)
Split(s, sep) ==
    LET cut == {i \in DOMAIN s : s[i] = sep}
    IN  IF cut = {} THEN <<s>>
        ELSE LET i == CHOOSE x \in cut : \A y \in cut : x <= y
             IN  <<SubSeq(s, 1, i - 1)>> \o Split(SubSeq(s, i + 1, Len(s)), sep)

\* The matching expression of a pattern: whether it compiles, its anchors and
\* its alternatives.
compile(pattern) ==
    LET any == <<".", "*">>
        from_start == pattern # <<>> /\ Head(pattern) = "^"
        p1 == IF from_start THEN Tail(pattern) ELSE pattern
        to_end == p1 # <<>> /\ p1[Len(p1)] = "$"
        p2 == IF to_end THEN SubSeq(p1, 1, Len(p1) - 1) ELSE p1
        lead == StartsWith(p2, any)
        p3 == IF lead THEN SubSeq(p2, 3, Len(p2)) ELSE p2
        trail == EndsWith(p3, any)
        p4 == IF trail THEN SubSeq(p3, 1, Len(p3) - 2) ELSE p3
        grouped == Len(p4) >= 2 /\ Head(p4) = "(" /\ p4[Len(p4)] = ")"
        words == IF grouped THEN Split(SubSeq(p4, 2, Len(p4) - 1), "|") ELSE <<p4>>
    IN  [ok |-> Balanced(pattern, 0) /\ ~(p1 # <<>> /\ Head(p1) \in Quantifiers),
         at_start |-> from_start /\ ~lead,
         at_end |-> to_end /\ ~trail,
         words |-> {words[i] : i \in DOMAIN words}]

\* the pattern is found somewhere in s
search(rx, s) ==
    \E w \in rx.words :
        \E k \in 1..(Len(s) - Len(w) + 1) :
            /\ SubSeq(s, k, k + Len(w) - 1) = w
            /\ rx.at_start => k = 1
            /\ rx.at_end => k + Len(w) - 1 = Len(s)

\* construct without the validation of the pattern
construct_unchecked(def) == [error |-> "none", rule |-> <<def>>]

\* construct: the RuleSpec, or InvalidPatternError when the pattern does not compile
construct(def) ==
    IF compile(def.pattern).ok
    THEN [error |-> "none", rule |-> <<def>>]
    ELSE [error |-> "InvalidPatternError", rule |-> <<>>]

\* The configured always-allowed root modules.
AlwaysAllowed == { <<"o","s">>, <<"s","y","s">> }

\* the whole dotted name taken for the root
root_module_whole(name) == name

root_module(name) == Split(name, ".")[1]

\* no import taken for a relative one
is_relative_never(node) == FALSE

\* the import carries the relative-import marker
is_relative(node) == node.value = "relative"

ImportKinds == {"Import", "ImportFrom"}

CategoryName(kind) ==
    CASE kind = "Raise"  -> <<"R","a","i","s","e">>
      [] kind = "Await"  -> <<"A","w","a","i","t">>
      [] kind = "Import" -> <<"I","m","p","o","r","t">>
      [] OTHER           -> <<>>

\* matches(node), dispatching on the rule kind and the node category
matches(rule, node) ==
    LET rx == compile(rule.pattern)
    IN  CASE rule.kind = "import" ->
                node.kind \in ImportKinds /\ search(rx, node.name)
          [] rule.kind = "restricted_import" ->
                /\ node.kind \in ImportKinds
                /\ ~is_relative(node)
                /\ root_module(node.name) \notin AlwaysAllowed
                /\ ~search(rx, node.name)
          [] rule.kind = "class_name" ->
                node.kind = "ClassDef" /\ search(rx, node.name)
          [] rule.kind = "function_name" ->
                node.kind = "FunctionDef" /\ search(rx, node.name)
          [] rule.kind = "node_usage" ->
                CategoryName(node.kind) # <<>> /\ CategoryName(node.kind) = rule.pattern
          [] rule.kind = "type_annotation" ->
                node.kind = "AnnAssign" /\ search(rx, node.ann)
          [] rule.kind = "attribute_name" ->
                node.kind = "AnnAssign" /\ search(rx, node.name)
          [] rule.kind = "attribute_default" ->
                node.kind = "AnnAssign" /\ node.value \notin {"absent", "None", "Field"}
          [] OTHER -> FALSE

\* check(node, source) once matches holds: the Violation
Violation(rule, node, src) ==
    [rule_id |-> rule.id, rule_name |-> rule.name, file_path |-> src.path,
     line_number |-> node.lineno,
     content_snippet |-> get_line(splitlines(src.content), node.lineno),
     message |-> rule.message]

RECURSIVE ScanFrom(_, _, _, _)
\* every node in document order, every rule in catalog order at each node
ScanFrom(nodes, rs, n, k) ==
    IF n > Len(nodes) THEN <<>>
    ELSE IF k > Len(rs) THEN ScanFrom(nodes, rs, n + 1, 1)
    ELSE (IF matches(rs[k], nodes[n]) THEN << <<n, k>> >> ELSE <<>>)
         \o ScanFrom(nodes, rs, n, k + 1)

\* scan(source, rules): the matching (node, rule) pairs, none when parsing fails
scan(src, rs) ==
    LET parsed == ast_parse(src.content)
    IN  IF parsed.ok THEN ScanFrom(parsed.nodes, rs, 1, 1) ELSE <<>>

\* ValidationRule(...): one more rule for the catalog
Construct ==
    /\ rule_pc = "load"
    /\ Len(catalog) < MaxRules
    /\ \E def \in RuleDefs :
        /\ requested' = <<def>>
        /\ LET made == construct(def)
           IN  IF made.error = "none"
               THEN /\ catalog' = catalog \o made.rule
                    /\ rule_pc' = "load"
               ELSE /\ rule_pc' = "invalid_pattern"
                    /\ UNCHANGED catalog
    /\ UNCHANGED <<violations, matched>>
    /\ UNCHANGED <<hook_vars, batch_vars>>

\* list(scan(source, rules))
RuleScan ==
    /\ rule_pc = "load"
    /\ LET pairs == scan(source, catalog)
           nodes == ast_parse(source.content).nodes
       IN  /\ matched' = pairs
           /\ violations' = [i \in DOMAIN pairs |->
                                Violation(catalog[pairs[i][2]], nodes[pairs[i][1]], source)]
    /\ rule_pc' = "scanned"
    /\ UNCHANGED <<requested, catalog>>
    /\ UNCHANGED <<hook_vars, batch_vars>>

----------------------------------------------------------------------------
(* Batch mode: the files of a batch scanned by scan calls that run side by  *)
(* side, each with its own tree, deque and signal list, as the calls of     *)
(* SourceFile.scan have them.  mirror.py scans one file per invocation; the *)
(* batch follows sections 4.3 and 5 of the specification and the loop of    *)
(* test_shell.py.                                                            *)

\* The paths of a batch, in ascending order.
BatchPaths == <<p_domain, p_service, p_other>>

PathRank(path) == CHOOSE k \in DOMAIN BatchPaths : BatchPaths[k] = path

BatchContents ==
    { <<[indent |-> 0, stmt |-> Simple("raise")]>>,
      <<[indent |-> 0, stmt |-> Simple("raise")], [indent |-> 0, stmt |-> Simple("await")]>>,
      <<[indent |-> 0, stmt |-> Stmt("def", n_f, <<>>, "absent")],
        [indent |-> 1, stmt |-> Simple("await")]>>,
      <<[indent |-> 0, stmt |-> Simple("invalid")]>> }

BatchFiles == [path : {BatchPaths[k] : k \in DOMAIN BatchPaths}, content : BatchContents]

\* The matched paths of the configured globs, each path once.
Batches ==
    {b \in SeqsUpTo(BatchFiles, MaxBatch) :
        \A i, j \in DOMAIN b : i # j => b[i].path # b[j].path}

IdleWorker == [pc |-> "idle", tree |-> <<>>, todo |-> <<>>, signals |-> <<>>]

\* A violation of the batch: the signal and the file it was found in.
Tagged(path, sigs) == [i \in DOMAIN sigs |-> [file_path |-> path, signal |-> sigs[i]]]

RECURSIVE SortFrom(_, _)
\* The violations of path k, in the order they have in the list, then the later paths'
SortFrom(list, k) ==
    IF k > Len(BatchPaths) THEN <<>>
    ELSE SelectSeq(list, LAMBDA v : v.file_path = BatchPaths[k]) \o SortFrom(list, k + 1)

\* A sort by file path that does not keep the order within a file
sort_by_path_unstable(list) ==
    SortFrom([i \in DOMAIN list |-> list[Len(list) + 1 - i]], 1)

\* the stable re-sort of the merged violations by file path
sort_by_path(list) == SortFrom(list, 1)

\* scan on file i up to the loop
WorkerCall ==
    /\ batch_pc = "scanning"
    /\ \E i \in DOMAIN workers :
        /\ workers[i].pc = "idle"
        /\ LET parsed == ast_parse(batch_files[i].content)
           IN  workers' = [workers EXCEPT ![i] =
                   IF parsed.ok
                   THEN [pc |-> "walk", tree |-> parsed.nodes, todo |-> walk_start,
                         signals |-> SignalList(@.signals)]
                   ELSE [pc |-> "returned", tree |-> <<>>, todo |-> <<>>,
                         signals |-> OnSyntaxError.value]]
    /\ UNCHANGED <<batch_pc, batch_files, merged, batch_out>>
    /\ UNCHANGED <<hook_vars, rule_vars>>

\* one iteration of the walk on file i
WorkerStep ==
    /\ batch_pc = "scanning"
    /\ \E i \in DOMAIN workers :
        /\ workers[i].pc = "walk"
        /\ workers[i].todo # <<>>
        /\ LET w == workers[i]
               signal == _detect_signal(w.tree[Head(w.todo)],
                                        splitlines(batch_files[i].content))
           IN  workers' = [workers EXCEPT ![i] =
                   [w EXCEPT !.todo = walk_next(w.tree, w.todo),
                             !.signals = w.signals \o signal]]
    /\ UNCHANGED <<batch_pc, batch_files, merged, batch_out>>
    /\ UNCHANGED <<hook_vars, rule_vars>>

\* the scan of file i returns
WorkerReturn ==
    /\ batch_pc = "scanning"
    /\ \E i \in DOMAIN workers :
        /\ workers[i].pc = "walk"
        /\ workers[i].todo = <<>>
        /\ workers' = [workers EXCEPT ![i].pc = "returned"]
    /\ UNCHANGED <<batch_pc, batch_files, merged, batch_out>>
    /\ UNCHANGED <<hook_vars, rule_vars>>

\* the violations of file i join the merged list
WorkerMerge ==
    /\ batch_pc = "scanning"
    /\ \E i \in DOMAIN workers :
        /\ workers[i].pc = "returned"
        /\ merged' = merged \o Tagged(batch_files[i].path, workers[i].signals)
        /\ workers' = [workers EXCEPT ![i].pc = "done"]
    /\ UNCHANGED <<batch_pc, batch_files, batch_out>>
    /\ UNCHANGED <<hook_vars, rule_vars>>

\* every scan is in: the merged list is re-sorted
BatchSort ==
    /\ batch_pc = "scanning"
    /\ \A i \in DOMAIN workers : workers[i].pc = "done"
    /\ batch_out' = sort_by_path(merged)
    /\ batch_pc' = "sorted"
    /\ UNCHANGED <<batch_files, workers, merged>>
    /\ UNCHANGED <<hook_vars, rule_vars>>

----------------------------------------------------------------------------
(* Specifications *)

Blank ==
    /\ cli_mode = FALSE
    /\ stdin = NoPayload
    /\ hook_input = EmptyInput
    /\ tree = <<>>
    /\ todo = <<>>
    /\ signals = <<>>
    /\ visited = <<>>
    /\ emitted = <<>>
    /\ returned = <<>>
    /\ raised = FALSE
    /\ result = NoResult
    /\ stdout = <<>>
    /\ reads = <<>>
    /\ rules = <<>>
    /\ exit_code = -1
    /\ runs = 1

\* The rule catalog is not in use.
RuleBlank ==
    /\ rule_pc = "unused"
    /\ requested = <<>>
    /\ catalog = <<>>
    /\ violations = <<>>
    /\ matched = <<>>

\* No batch is scanned.
BatchBlank ==
    /\ batch_pc = "unused"
    /\ batch_files = <<>>
    /\ workers = <<>>
    /\ merged = <<>>
    /\ batch_out = <<>>

\* Invocations of the hook script over a disk.
Init ==
    /\ pc = "main"
    /\ ret = "processed"
    /\ source = NoSource
    /\ disk \in Disks(MainStmts, MainLines)
    /\ rules_dir \in RulesDirs
    /\ feedback \in Feedbacks
    /\ Blank
    /\ RuleBlank
    /\ BatchBlank

Scan == ScanCall \/ ScanStep \/ ScanReturn

Next ==
    \/ MainCli \/ MainHook
    \/ MainStopAborted \/ MainEmpty \/ MainReadFile \/ MainDiscover \/ MainProcess
    \/ Scan
    \/ MainProcessed \/ MainFormat \/ MainStop \/ MainAgain

Spec == Init /\ [][Next]_vars

\* Direct calls of SourceFile.scan, as the tests make them.
InitScan ==
    /\ pc = "scan_call"
    /\ ret = "scan_idle"
    /\ source \in {[path |-> p_other, content |-> c] : c \in Contents(ScanStmts, MaxLines)}
    /\ disk = File("missing", <<>>)
    /\ rules_dir = [exists |-> FALSE, entries |-> <<>>]
    /\ feedback = [exists |-> FALSE, content |-> <<"text", <<>>>>]
    /\ Blank
    /\ RuleBlank
    /\ BatchBlank

NextScan == ScanCall \/ ScanStep \/ ScanReturn \/ ScanAgain

SpecScan == InitScan /\ [][NextScan]_vars

\* SourceFile.scan on one file after another.
InitFiles ==
    /\ pc = "scan_call"
    /\ ret = "scan_idle"
    /\ source \in {[path |-> p_other, content |-> c] : c \in Contents(MainStmts, MainLines)}
    /\ disk = File("missing", <<>>)
    /\ rules_dir = [exists |-> FALSE, entries |-> <<>>]
    /\ feedback = [exists |-> FALSE, content |-> <<"text", <<>>>>]
    /\ Blank
    /\ RuleBlank
    /\ BatchBlank

NextFiles == ScanCall \/ ScanStep \/ ScanReturn \/ ScanAgain \/ ScanOther

SpecFiles == InitFiles /\ [][NextFiles]_vars

\* SourceFile.scan over class declarations and over annotated bindings.
InitDecl ==
    /\ pc = "scan_call"
    /\ ret = "scan_idle"
    /\ source \in {[path |-> p_other, content |-> c] :
                      c \in ClassContents \cup Contents(AnnStmts, AnnLines)}
    /\ disk = File("missing", <<>>)
    /\ rules_dir = [exists |-> FALSE, entries |-> <<>>]
    /\ feedback = [exists |-> FALSE, content |-> <<"text", <<>>>>]
    /\ Blank
    /\ RuleBlank
    /\ BatchBlank

NextDecl == ScanCall \/ ScanStep \/ ScanReturn

SpecDecl == InitDecl /\ [][NextDecl]_vars

\* SourceFile.scan over lines around the width of a snippet.
InitSnippet ==
    /\ pc = "scan_call"
    /\ ret = "scan_idle"
    /\ source \in {[path |-> p_other, content |-> c] : c \in Contents(SnippetStmts, MaxLines)}
    /\ disk = File("missing", <<>>)
    /\ rules_dir = [exists |-> FALSE, entries |-> <<>>]
    /\ feedback = [exists |-> FALSE, content |-> <<"text", <<>>>>]
    /\ Blank
    /\ RuleBlank
    /\ BatchBlank

NextSnippet == ScanCall \/ ScanStep \/ ScanReturn

SpecSnippet == InitSnippet /\ [][NextSnippet]_vars

\* FileProcessor.process over one rule built directly, the scan done.
InitGlobs ==
    /\ pc = "processed"
    /\ ret = "processed"
    /\ cli_mode = FALSE
    /\ stdin = NoPayload
    /\ source \in {[path |-> p, content |-> <<>>] : p \in GlobPaths}
    /\ hook_input = FileEditInput(source.path)
    /\ disk = File("readable", <<>>)
    /\ rules_dir = [exists |-> FALSE, entries |-> <<>>]
    /\ rules \in {<<r>> : r \in GlobRules}
    /\ tree = <<ModuleNode>>
    /\ todo = <<>>
    /\ signals = <<>>
    /\ visited = <<1>>
    /\ emitted = <<>>
    /\ returned = << <<>> >>
    /\ raised = FALSE
    /\ result = NoResult
    /\ stdout = <<>>
    /\ feedback = [exists |-> FALSE, content |-> <<"text", <<>>>>]
    /\ reads = <<source.path>>
    /\ exit_code = -1
    /\ runs = 1
    /\ RuleBlank
    /\ BatchBlank

NextGlobs == MainProcessed \/ MainFormat

SpecGlobs == InitGlobs /\ [][NextGlobs]_vars

\* A batch of files scanned side by side.
InitBatch ==
    /\ pc = "unused"
    /\ ret = "scan_idle"
    /\ source = [path |-> p_other, content |-> <<>>]
    /\ disk = File("missing", <<>>)
    /\ rules_dir = [exists |-> FALSE, entries |-> <<>>]
    /\ feedback = [exists |-> FALSE, content |-> <<"text", <<>>>>]
    /\ Blank
    /\ RuleBlank
    /\ batch_pc = "scanning"
    /\ batch_files \in Batches
    /\ workers = [i \in DOMAIN batch_files |-> IdleWorker]
    /\ merged = <<>>
    /\ batch_out = <<>>

NextBatch == WorkerCall \/ WorkerStep \/ WorkerReturn \/ WorkerMerge \/ BatchSort

SpecBatch == InitBatch /\ [][NextBatch]_vars

\* Rules constructed and a source of imports scanned with them.
InitRules ==
    /\ pc = "unused"
    /\ ret = "scan_idle"
    /\ source \in {[path |-> p_other, content |-> c] : c \in ImportContents}
    /\ disk = File("missing", <<>>)
    /\ rules_dir = [exists |-> FALSE, entries |-> <<>>]
    /\ feedback = [exists |-> FALSE, content |-> <<"text", <<>>>>]
    /\ Blank
    /\ rule_pc = "load"
    /\ requested = <<>>
    /\ catalog = <<>>
    /\ violations = <<>>
    /\ matched = <<>>
    /\ BatchBlank

NextRules == Construct \/ RuleScan

SpecRules == InitRules /\ [][NextRules]_vars

----------------------------------------------------------------------------
(* Properties of SourceFile.scan, under SpecScan *)

ParseFails == ~ast_parse(source.content).ok

ScanFinished == pc = "scan_idle" /\ returned # <<>>

\* C1: for every source content that fails to parse, scan returns an empty
\* sequence of violations and never raises an error.
C1_ParseFailureYieldsNothing ==
    ParseFails =>
        /\ pc \in {"scan_call", "scan_idle"}
        /\ ~raised
        /\ \A i \in DOMAIN returned : returned[i] = <<>>

C1_Witness == ScanFinished /\ ParseFails /\ Len(source.content) >= 2

\* The index of a signal kind in the catalog SIGNAL_PATTERNS.
CatalogIndex(kind) == CHOOSE i \in DOMAIN SIGNAL_PATTERNS : SIGNAL_PATTERNS[i].kind = kind

\* C2: the violations of a scan are ordered lexicographically by (pre-order
\* position of the matched node, index of the matching rule in the catalog): a
\* violation on a node earlier in document pre-order is emitted before one on
\* a later node.
C2_PreOrder ==
    \A i, j \in DOMAIN emitted :
        i < j =>
            \/ emitted[i] < emitted[j]
            \/ /\ emitted[i] = emitted[j]
               /\ CatalogIndex(signals[i].kind) < CatalogIndex(signals[j].kind)

SignalKinds == {SIGNAL_PATTERNS[i].kind : i \in DOMAIN SIGNAL_PATTERNS}

KindsMatching(node) == {k \in SignalKinds : Matches(node, k)}

SignalsOn(n) == {i \in DOMAIN emitted : emitted[i] = n}

\* C3, as stated: every node is evaluated against every rule and one violation
\* is yielded per match; a node that satisfies k distinct rules produces k
\* violations, each construct being reported under every kind it satisfies.
C3_OnePerMatch ==
    ScanFinished =>
        \A n \in DOMAIN tree :
            /\ Cardinality(SignalsOn(n)) = Cardinality(KindsMatching(tree[n]))
            /\ \A k \in KindsMatching(tree[n]) :
                   \E i \in SignalsOn(n) : signals[i].kind = k

\* The precedence among the kinds an annotated binding can satisfy.
Precedence == <<"boolean_flag", "primitive_type", "field_default">>

FirstKind(node) ==
    LET ks == KindsMatching(node)
    IN  IF Cardinality(ks) = 1 THEN CHOOSE k \in ks : TRUE
        ELSE Precedence[CHOOSE i \in DOMAIN Precedence :
                            /\ Precedence[i] \in ks
                            /\ \A j \in 1..(i - 1) : Precedence[j] \notin ks]

\* C3, amended: every node is evaluated against the kinds in a fixed order and
\* yields at most one violation, that of the first kind it satisfies
\* (boolean_flag before primitive_type before field_default); a node that
\* satisfies k >= 1 kinds produces exactly one violation and a node that
\* satisfies none produces none.
C3_FirstMatchPerNode ==
    ScanFinished =>
        \A n \in DOMAIN tree :
            IF KindsMatching(tree[n]) = {}
            THEN SignalsOn(n) = {}
            ELSE /\ Cardinality(SignalsOn(n)) = 1
                 /\ \A i \in SignalsOn(n) : signals[i].kind = FirstKind(tree[n])

C3_Witness ==
    /\ ScanFinished
    /\ \E n \in DOMAIN tree :
        /\ Cardinality(KindsMatching(tree[n])) >= 2
        /\ SignalsOn(n) # {}

\* C4: scan is idempotent; repeated calls with the same source produce the
\* same violations in the same order.
C4_Idempotent == \A i, j \in DOMAIN returned : returned[i] = returned[j]

C4_Witness == pc = "scan_idle" /\ Len(returned) >= 2 /\ Len(returned[1]) >= 2

\* C19: every raise statement and every await expression of a parseable
\* source yields exactly one violation, of its own kind and on the line of
\* that node, wherever it is nested.
C19_RaiseAwaitReported ==
    ScanFinished =>
        \A n \in DOMAIN tree :
            tree[n].kind \in {"Raise", "Await"} =>
                /\ Cardinality(SignalsOn(n)) = 1
                /\ \A i \in SignalsOn(n) :
                    /\ signals[i].kind =
                          (IF tree[n].kind = "Raise" THEN "raise_stmt" ELSE "await_expr")
                    /\ signals[i].line = tree[n].lineno

C19_Witness ==
    /\ ScanFinished
    /\ \E n, m \in DOMAIN tree :
        /\ tree[n].kind = "Raise" /\ tree[tree[n].parent].kind = "FunctionDef"
        /\ tree[m].kind = "Await"
        /\ tree[tree[tree[m].parent].parent].kind \in {"FunctionDef", "ClassDef"}
        /\ SignalsOn(n) # {} /\ SignalsOn(m) # {}

\* C22: every signal scan emits has a positive line number that indexes an
\* existing line of the scanned source: 1 <= line <= number of lines.
C22_LineInSource ==
    /\ \A i \in DOMAIN signals :
        1 <= signals[i].line /\ signals[i].line <= Len(splitlines(source.content))
    /\ \A r \in DOMAIN returned :
        \A i \in DOMAIN returned[r] :
            1 <= returned[r][i].line /\ returned[r][i].line <= Len(splitlines(source.content))

C22_Witness ==
    /\ ScanFinished
    /\ Len(source.content) = 3
    /\ \E i, j \in DOMAIN signals : signals[i].line = 1 /\ signals[j].line = 3

----------------------------------------------------------------------------
(* Properties of SourceFile.scan over declarations, under SpecDecl *)

\* The pattern (Service|Manager|Handler|Processor)$ is found in the name.
ServicePatternFound(name) ==
    \E k \in 1..Len(name) : SubSeq(name, k, Len(name)) \in ServiceSuffixes

\* C18: a class definition yields a class-name violation exactly when the
\* pattern is found in the declared class name (a name ending in Manager,
\* for one); the snippet of the violation is the class declaration line and
\* each matching class has exactly one violation.
C18_ClassNameReported ==
    ScanFinished =>
        /\ \A n \in DOMAIN tree :
            tree[n].kind = "ClassDef" =>
                IF ServicePatternFound(tree[n].name)
                THEN /\ Cardinality(SignalsOn(n)) = 1
                     /\ \A i \in SignalsOn(n) :
                         /\ signals[i].kind = "service_class"
                         /\ signals[i].line = tree[n].lineno
                         /\ signals[i].content = source.content[tree[n].lineno].stmt.text
                ELSE SignalsOn(n) = {}
        /\ \A i \in DOMAIN signals :
            signals[i].kind = "service_class" => tree[emitted[i]].kind = "ClassDef"

C18_Witness ==
    /\ ScanFinished
    /\ \E n, m \in DOMAIN tree :
        /\ tree[n].kind = "ClassDef" /\ tree[n].name = n_UserManager
        /\ tree[n].parent # 1 /\ SignalsOn(n) # {}
        /\ tree[m].kind = "ClassDef" /\ tree[m].name = n_ManagerHub /\ SignalsOn(m) = {}

\* C20: a type-annotated binding yields a boolean-flag violation exactly
\* when its bound identifier begins with is_, whatever its annotation and
\* whether or not it has a default value.
C20_BooleanFlagByName ==
    ScanFinished =>
        /\ \A n \in DOMAIN tree :
            tree[n].kind = "AnnAssign" =>
                LET flags == {i \in SignalsOn(n) : signals[i].kind = "boolean_flag"}
                IN  IF Len(tree[n].name) >= 3 /\ SubSeq(tree[n].name, 1, 3) = <<"i","s","_">>
                    THEN Cardinality(flags) = 1 /\ \A i \in flags : signals[i].line = tree[n].lineno
                    ELSE flags = {}
        /\ \A i \in DOMAIN signals :
            signals[i].kind = "boolean_flag" => tree[emitted[i]].kind = "AnnAssign"

C20_Witness ==
    /\ ScanFinished
    /\ \E n, m \in DOMAIN tree :
        /\ tree[n].kind = "AnnAssign" /\ tree[n].name = n_is_ok
        /\ tree[n].ann = t_bool /\ tree[n].value = "True"
        /\ \E i \in SignalsOn(n) : signals[i].kind = "boolean_flag"
        /\ tree[m].kind = "AnnAssign" /\ tree[m].name = n_is_ok
        /\ tree[m].ann = t_Status /\ tree[m].value = "absent"
        /\ \E i \in SignalsOn(m) : signals[i].kind = "boolean_flag"

\* The binding carries a default that is neither None nor a call of Field.
UnsafeDefault(node) == node.value \in {"True", "Call"}

DefaultSignalsOn(n) == {i \in SignalsOn(n) : signals[i].kind = "field_default"}

\* C21, as stated: a type-annotated binding yields a default-value violation
\* exactly when it carries a default that is neither None nor a call of
\* Field, whatever the name and the declared type of the binding.
C21_UnsafeDefaultReported ==
    ScanFinished =>
        \A n \in DOMAIN tree :
            tree[n].kind = "AnnAssign" =>
                (DefaultSignalsOn(n) # {} <=> UnsafeDefault(tree[n]))

\* C21, amended: a type-annotated binding yields a default-value violation
\* exactly when it carries a default that is neither None nor a call of
\* Field and neither its name begins with is_ nor its declared type is one
\* of str, int, bool, float; a binding with such a name or type is reported
\* under that kind instead.
C21_UnsafeDefaultReportedLast ==
    ScanFinished =>
        \A n \in DOMAIN tree :
            tree[n].kind = "AnnAssign" =>
                LET named == SubSeq(tree[n].name, 1, 3) = <<"i","s","_">>
                    primitive == tree[n].ann \in {t_bool, t_int, <<"s","t","r">>,
                                                  <<"f","l","o","a","t">>}
                IN  /\ Cardinality(DefaultSignalsOn(n)) <= 1
                    /\ DefaultSignalsOn(n) # {} <=>
                          (UnsafeDefault(tree[n]) /\ ~named /\ ~primitive)
                    /\ (UnsafeDefault(tree[n]) /\ (named \/ primitive)) =>
                          \E i \in SignalsOn(n) :
                              signals[i].kind \in {"boolean_flag", "primitive_type"}

C21_Witness ==
    /\ ScanFinished
    /\ \E n, m \in DOMAIN tree :
        /\ tree[n].kind = "AnnAssign" /\ tree[n].name = n_age /\ tree[n].ann = t_Status
        /\ tree[n].value = "Call" /\ DefaultSignalsOn(n) # {}
        /\ tree[m].kind = "AnnAssign" /\ tree[m].name = n_age /\ tree[m].ann = t_Status
        /\ tree[m].value = "Field" /\ SignalsOn(m) = {}

\* The kind the precedence gives an annotated binding, none when it satisfies none.
KindByPrecedence(node) ==
    IF Len(node.name) >= 3 /\ SubSeq(node.name, 1, 3) = <<"i","s","_">>
    THEN <<"boolean_flag">>
    ELSE IF node.ann \in {<<"s","t","r">>, <<"i","n","t">>, <<"b","o","o","l">>,
                          <<"f","l","o","a","t">>}
    THEN <<"primitive_type">>
    ELSE IF UnsafeDefault(node) THEN <<"field_default">>
    ELSE <<>>

\* C27: scan emits at most one signal per syntax-tree node, so the number of
\* signals never exceeds the number of nodes; for a type-annotated binding the
\* kind of the signal is chosen by a fixed precedence: boolean_flag (name
\* starts with is_) before primitive_type (annotation str, int, bool or float)
\* before field_default (unsafe default value).
C27_OneSignalByPrecedence ==
    /\ \A i, j \in DOMAIN emitted : i # j => emitted[i] # emitted[j]
    /\ Len(signals) <= Len(visited)
    /\ Len(signals) <= Len(tree)
    /\ \A r \in DOMAIN returned : Len(returned[r]) <= Len(ast_parse(source.content).nodes)
    /\ \A i \in DOMAIN signals :
          tree[emitted[i]].kind = "AnnAssign" =>
              <<signals[i].kind>> = KindByPrecedence(tree[emitted[i]])
    /\ ScanFinished =>
          \A n \in DOMAIN tree :
              (tree[n].kind = "AnnAssign" /\ SignalsOn(n) = {}) =>
                  KindByPrecedence(tree[n]) = <<>>

C27_Witness ==
    /\ ScanFinished
    /\ Len(signals) = 2
    /\ \E n, m \in DOMAIN tree :
        /\ tree[n].name = n_is_ok /\ tree[n].ann = t_bool /\ tree[n].value = "True"
        /\ \E i \in SignalsOn(n) : signals[i].kind = "boolean_flag"
        /\ tree[m].name = n_age /\ tree[m].ann = t_bool /\ tree[m].value = "Call"
        /\ \E i \in SignalsOn(m) : signals[i].kind = "primitive_type"

----------------------------------------------------------------------------
(* Properties of the snippet of a signal, under SpecSnippet *)

\* A line without the blanks around it.
TrimmedOf(raw) ==
    LET inked == {k \in DOMAIN raw : raw[k] # " "}
    IN  IF inked = {} THEN <<>>
        ELSE SubSeq(raw, CHOOSE a \in inked : \A k \in inked : a <= k,
                         CHOOSE b \in inked : \A k \in inked : k <= b)

\* C23: the snippet of a violation is taken from the source line at the
\* violation's line number: it is that line without surrounding whitespace
\* when that is at most 60 characters, and otherwise its first 60 characters
\* followed by the marker '...'; it is never longer than 63 characters.
C23_SnippetOfLine ==
    \A i \in DOMAIN signals :
        LET line == TrimmedOf(splitlines(source.content)[signals[i].line])
        IN  /\ signals[i].content =
                  (IF Len(line) <= 60 THEN line
                   ELSE SubSeq(line, 1, 60) \o <<".", ".", ".">>)
            /\ Len(signals[i].content) <= 63

C23_Witness ==
    /\ ScanFinished
    /\ \E i, j \in DOMAIN signals :
        /\ Len(signals[i].content) = 63
        /\ Len(signals[j].content) = 60
        /\ source.content[signals[i].line].indent = 1
        /\ source.content[signals[j].line].indent = 1

----------------------------------------------------------------------------
(* Properties of an invocation, under Spec *)

\* C5, as stated: format returns the empty sentinel whenever the list of
\* violations is empty, regardless of any other input.
C5_EmptyViolationsGiveSentinel ==
    (pc = "format" /\ result.signals = <<>>) => format_message(result) = NoOutput

\* C5, amended: with an empty list of violations, format returns the empty
\* sentinel exactly when no rule applies to the file; when rules apply it
\* returns a message.
C5_EmptyViolationsNoRulesGiveSentinel ==
    (pc = "format" /\ result.signals = <<>>) =>
        (format_message(result) = NoOutput <=> result.applicable_rules = <<>>)

C5_Witness ==
    /\ pc = "done"
    /\ source # NoSource
    /\ result.signals = <<>> /\ result.applicable_rules = <<>>
    /\ stdout = <<to_json(NoOutput)>>

SignalEntries(msg) == {i \in DOMAIN msg : msg[i][1] = "signal"}

\* C6: when the number of violations exceeds the display limit, the report
\* contains exactly limit violation entries plus an explicit count of the
\* omitted ones.
C6_CappedAtLimit ==
    (pc = "format" /\ Len(result.signals) > DisplayLimit) =>
        LET msg == format_message(result).agent_message
        IN  /\ Cardinality(SignalEntries(msg)) = DisplayLimit
            /\ \E i \in DOMAIN msg : msg[i][1] = "omitted"

MatchesSomeGlob(path) ==
    \E i \in DOMAIN discover_rules(rules_dir) :
        matches_path(discover_rules(rules_dir)[i], path)

\* C7: in file-edit mode, when the edited path matches none of the configured
\* globs, the scan is never invoked for it and the final output is the empty
\* sentinel.
C7_UnmatchedPathNeverScanned ==
    (/\ hook_input.kind = "file_edit" /\ ~cli_mode /\ disk.state = "readable"
     /\ ~MatchesSomeGlob(hook_input.file_path)) =>
        /\ returned = <<>>
        /\ pc \notin {"scan_call", "scan_walk"}
        /\ pc = "done" => stdout = <<to_json(NoOutput)>>

\* C8: every hook-mode invocation delivers exactly one output, the payload
\* carrying the message or the empty sentinel, for every trigger and every
\* state of the edited file.
C8_ExactlyOneOutput ==
    (pc = "done" /\ ~cli_mode) => (Len(stdout) = 1 /\ stdout[1][1] = "json")

\* C9: a malformed trigger payload is treated as the empty event: the run
\* does not crash, no file is read or scanned, and the output is the empty
\* report.
C9_MalformedIsEmpty ==
    stdin.kind = "malformed" =>
        /\ hook_input.kind = "empty"
        /\ pc \in {"dispatch", "done"}
        /\ ~raised
        /\ reads = <<>> /\ returned = <<>> /\ source = NoSource
        /\ pc = "done" => (stdout = <<to_json(NoOutput)>> /\ exit_code = 0)

C9_Witness == pc = "done" /\ stdin.kind = "malformed" /\ stdin.file_path # NoPath

\* C10: to_domain classifies a payload carrying a status as a stop event with
\* that status, also when a file path is present; a payload with a file path
\* and no status as a file-edit event carrying that path; a payload with
\* neither as the empty event.
C10_Classification ==
    stdin.kind = "json" =>
        IF stdin.status # NoStatus
        THEN hook_input.kind = "stop" /\ hook_input.status = stdin.status
        ELSE IF stdin.file_path # NoPath
             THEN hook_input.kind = "file_edit" /\ hook_input.file_path = stdin.file_path
             ELSE hook_input.kind = "empty"

C10_Witness ==
    /\ pc = "done"
    /\ stdin.kind = "json" /\ stdin.status = "completed" /\ stdin.file_path # NoPath
    /\ hook_input.kind = "stop"

\* C11: a stop event, whatever its status, never reads or scans a source
\* file; it clears the feedback file and, in hook mode, prints the empty
\* output.
C11_StopOnlyClears ==
    hook_input.kind = "stop" =>
        /\ pc \in {"dispatch", "done"}
        /\ reads = <<>> /\ returned = <<>> /\ source = NoSource
        /\ pc = "done" =>
            /\ feedback.exists => feedback.content = <<"text", <<>>>>
            /\ ~cli_mode => stdout = <<to_json(NoOutput)>>

C11_Witness ==
    /\ pc = "done" /\ runs = 2
    /\ hook_input.kind = "stop" /\ hook_input.status = "error"
    /\ stdin.file_path # NoPath
    /\ feedback.exists
    /\ stdout = <<to_json(NoOutput)>>

\* A rule directory whose RULE.md cannot be read or decoded, or carries no
\* frontmatter with globs.
BadRuleEntry(entry) ==
    /\ entry.is_dir /\ SubSeq(entry.name, 1, 8) = pattern_prefix
    /\ \/ entry.rule_file.state \in {"unreadable", "undecodable"}
       \/ /\ entry.rule_file.state = "readable"
          /\ ~(entry.rule_file.content.opens /\ entry.rule_file.content.closes
               /\ entry.rule_file.content.has_globs)

MalformedCatalog ==
    rules_dir.exists /\ \E i \in DOMAIN rules_dir.entries : BadRuleEntry(rules_dir.entries[i])

\* The invocation is past the loading of the rules.
CatalogLoaded == source # NoSource /\ pc # "discover"

\* C12: for every trigger and input condition other than a malformed rule
\* catalog the run finishes with exit code zero; a malformed rule catalog
\* ends the run, when the catalog is loaded, with a non-zero exit code.
C12_ExitCodes ==
    /\ (pc = "done" /\ ~MalformedCatalog) => exit_code = 0
    /\ (CatalogLoaded /\ MalformedCatalog) => (pc = "done" /\ exit_code > 0)

\* C13: when the rule catalog is invalid the run aborts before any file is
\* scanned: no scan runs in an invocation whose catalog contains a bad rule,
\* and a bad rule is never skipped silently or passed through.
C13_InvalidCatalogAborts ==
    MalformedCatalog =>
        /\ pc \notin {"process", "scan_call", "scan_walk", "processed", "format"}
        /\ returned = <<>>
        /\ \A k \in DOMAIN rules :
              \A i \in DOMAIN rules_dir.entries :
                  rules[k].name = rules_dir.entries[i].name => ~BadRuleEntry(rules_dir.entries[i])

\* A directory entry whose rule file the loop of discover_rules can load.
Loadable(entry) ==
    /\ entry.is_dir /\ SubSeq(entry.name, 1, 8) = pattern_prefix
    /\ Len(entry.name) > 8 /\ entry.name[9] \in Digits
    /\ entry.rule_file.state = "readable"

LoadableEntries == {i \in DOMAIN rules_dir.entries : Loadable(rules_dir.entries[i])}

\* C15: in the batch over the rule files, a file that is unreadable, missing
\* or not decodable is skipped: every remaining file is still loaded, in
\* listing order and with the result it has alone, and the batch never
\* aborts.
C15_UnreadableSkipped ==
    CatalogLoaded =>
        /\ ~raised
        /\ Len(rules) = (IF rules_dir.exists THEN Cardinality(LoadableEntries) ELSE 0)
        /\ rules_dir.exists =>
            \A i \in LoadableEntries :
                \E k \in DOMAIN rules :
                    /\ rules[k].name = rules_dir.entries[i].name
                    /\ rules[k].content = rules_dir.entries[i].rule_file.content
                    /\ <<rules[k]>> =
                         discover_rules([exists |-> TRUE, entries |-> <<rules_dir.entries[i]>>])
                    /\ k = Cardinality({j \in LoadableEntries : j <= i})
        /\ pc = "done" => exit_code = 0

C15_Witness ==
    /\ pc = "done" /\ Len(rules) = 3
    /\ \E i \in DOMAIN rules_dir.entries :
        /\ rules_dir.entries[i].rule_file.state = "undecodable"
        /\ \E j \in LoadableEntries : j > i
    /\ \E i \in DOMAIN rules_dir.entries :
        /\ rules_dir.entries[i].rule_file.state = "unreadable"
        /\ \E j \in LoadableEntries : j > i
    /\ \E i \in DOMAIN rules_dir.entries :
        /\ rules_dir.entries[i].rule_file.state = "missing"
        /\ \E j \in LoadableEntries : j > i

\* The entries of a message that carry this tag, in message order.
EntriesOf(msg, tag) == SelectSeq(msg, LAMBDA part : part[1] = tag)

\* C28: format_message returns the no-output sentinel if and only if both the
\* signal list and the applicable-rule list are empty; otherwise it returns a
\* message that lists every signal, in scan order, and every applicable rule,
\* in rule order.
C28_MessageListsEverything ==
    (pc \in {"format", "done"} /\ result # NoResult) =>
        LET out == format_message(result)
            sigs == result.signals
            rs == result.applicable_rules
        IN  /\ out = NoOutput <=> (sigs = <<>> /\ rs = <<>>)
            /\ out # NoOutput =>
                  /\ out.kind = "message"
                  /\ EntriesOf(out.agent_message, "signal")
                        = [i \in DOMAIN sigs |->
                              <<"signal", <<sigs[i].line, sigs[i].kind, sigs[i].content>> >>]
                  /\ EntriesOf(out.agent_message, "rule_open")
                        = [i \in DOMAIN rs |-> <<"rule_open", <<rs[i].pattern_id, rs[i].name>> >>]
                  /\ EntriesOf(out.agent_message, "rule_content")
                        = [i \in DOMAIN rs |-> <<"rule_content", rs[i].content>>]

C28_Witness ==
    /\ pc = "done"
    /\ result # NoResult
    /\ Len(result.signals) >= 2
    /\ Len(result.applicable_rules) >= 2
    /\ ~cli_mode
    /\ stdout[Len(stdout)] = to_json(format_message(result))
    /\ feedback.content = <<"text", format_message(result).agent_message>>

\* The invocation that has just ended was a file edit of a readable file.
ReadableEditDone == pc = "done" /\ hook_input.kind = "file_edit" /\ disk.state = "readable"

\* What the invocation printed last.
LastPrinted == stdout[Len(stdout)]

\* The printed output carries a message.
PrintedMessage ==
    IF cli_mode THEN LastPrinted # <<"text", << <<"no_signals">> >> >>
    ELSE LastPrinted # to_json(NoOutput)

EmptyText == <<"text", <<>>>>

\* C29: after any sequence of invocations, if the most recent one was a file
\* edit of a readable file, the feedback file holds exactly the message that
\* invocation emitted when it produced one, and is empty or absent when it
\* had nothing to report; no step brings into being an empty feedback file
\* that did not exist.
C29_FeedbackIsLastMessage ==
    /\ [](ReadableEditDone =>
            /\ stdout # <<>>
            /\ IF PrintedMessage
               THEN /\ feedback.exists
                    /\ feedback.content # EmptyText
                    /\ LastPrinted = (IF cli_mode THEN feedback.content
                                      ELSE <<"json", <<"agent_message", feedback.content[2]>>>>)
               ELSE ~feedback.exists \/ feedback.content = EmptyText)
    /\ [][(feedback'.exists /\ feedback'.content = EmptyText) => feedback.exists]_vars

C29_Witness ==
    /\ ReadableEditDone
    /\ runs = 2
    /\ ~PrintedMessage
    /\ ~feedback.exists

\* The event of the running invocation is one that is not to touch the
\* feedback file: no event, a malformed payload, an edit of a file that
\* cannot be read.
LeavesFeedback ==
    /\ pc \in {"dispatch", "done"}
    /\ \/ hook_input.kind = "empty"
       \/ hook_input.kind = "file_edit" /\ disk.state # "readable"

\* C30: an empty event, a malformed trigger payload and a file edit whose
\* file cannot be read leave the feedback file unchanged: no step of such an
\* invocation changes it, so what an earlier invocation wrote is still there.
C30_FeedbackLeftAlone == [][LeavesFeedback' => feedback' = feedback]_vars

C30_Witness ==
    /\ pc = "done" /\ runs = 2
    /\ hook_input.kind = "file_edit" /\ disk.state = "unreadable"
    /\ feedback.exists
    /\ feedback.content \notin {EmptyText, OldFeedback.content}

----------------------------------------------------------------------------
(* Properties of the rule catalog, under SpecRules *)

\* The patterns that are not regular expressions: a group left open, a
\* quantifier with nothing to repeat.
MalformedPatterns == {p_unclosed, p_repeat}

\* C14: constructing a rule whose pattern is malformed fails with
\* InvalidPatternError for every rule kind: no rule with a malformed pattern
\* is ever in the catalog and none ever matches a node.
C14_MalformedPatternRejected ==
    /\ \A k \in DOMAIN catalog : catalog[k].pattern \notin MalformedPatterns
    /\ \A i \in DOMAIN matched : catalog[matched[i][2]].pattern \notin MalformedPatterns
    /\ \A kind \in RuleKinds :
        (requested # <<>> /\ requested[1].kind = kind
         /\ requested[1].pattern \in MalformedPatterns) =>
            rule_pc = "invalid_pattern"

C14_Witness ==
    /\ rule_pc = "invalid_pattern"
    /\ requested = <<RuleDef("node_usage", p_repeat)>>

TreeOfSource == ast_parse(source.content).nodes

\* The statement of the line a node stands on.
StmtAt(n) == source.content[TreeOfSource[n].lineno].stmt

\* C16: under a restricted_import rule a relative import is never reported as
\* a violation, whatever the pattern of the rule and whatever else the
\* source contains.
C16_RelativeImportExempt ==
    \A i \in DOMAIN matched :
        catalog[matched[i][2]].kind = "restricted_import" =>
            ~StartsWith(StmtAt(matched[i][1]).text, <<"f","r","o","m"," ",".">>)

C16_Witness ==
    /\ rule_pc = "scanned"
    /\ catalog = <<RuleDef("restricted_import", p_manager)>>
    /\ Len(source.content) = 2
    /\ source.content[1].stmt = Stmt("from", m_boto3, <<>>, "relative")
    /\ source.content[2].stmt = Stmt("import", m_boto3, <<>>, "absolute")
    /\ Len(violations) = 1 /\ violations[1].line_number = 2

\* The part of a dotted module name before its first dot.
RootOf(name) ==
    LET dots == {i \in DOMAIN name : name[i] = "."}
    IN  IF dots = {} THEN name
        ELSE SubSeq(name, 1, (CHOOSE i \in dots : \A j \in dots : i <= j) - 1)

----------------------------------------------------------------------------
(* Properties of RuleRef.matches_path, under SpecGlobs *)

\* The rule with this one glob matches the path.
GlobMatches(glob, path) == matches_path(RuleRef(<<glob>>), path)

RuleApplies == result.applicable_rules = rules

\* C24: a path is matched against a list of globs as a disjunction: the rule
\* matches exactly when at least one glob of its list matches the path, a **
\* segment matches any depth of nested directories, and an empty list of
\* globs matches no path.
C24_AnyGlobMatches ==
    pc \in {"format", "done"} =>
        LET globs == rules[1].globs
        IN  /\ result.applicable_rules \in {rules, <<>>}
            /\ RuleApplies <=> \E i \in DOMAIN globs : GlobMatches(globs[i], source.path)
            /\ (\E i \in DOMAIN globs : globs[i] = g_domain) =>
                  (source.path \in {p_domain, p_deep} => RuleApplies)
            /\ globs = <<>> => ~RuleApplies

C24_Witness ==
    /\ pc = "done"
    /\ rules[1].globs = <<g_domain, g_service>>
    /\ source.path = p_service
    /\ RuleApplies

----------------------------------------------------------------------------
(* Properties of scans that follow one another, under SpecFiles *)

RECURSIVE WalkAlone(_, _, _)
\* The signals of the nodes of a walk that starts with nothing collected.
WalkAlone(nodes, queue, lines) ==
    IF queue = <<>> THEN <<>>
    ELSE _detect_signal(nodes[Head(queue)], lines)
            \o WalkAlone(nodes, walk_next(nodes, queue), lines)

\* What scanning a file gives when nothing was scanned before it.
ScanAlone(file) ==
    LET parsed == ast_parse(file.content)
    IN  IF parsed.ok
        THEN WalkAlone(parsed.nodes, walk_start, splitlines(file.content))
        ELSE <<>>

\* C25: the result of scanning a file does not depend on the files scanned
\* before it nor on earlier scans of the same file: whatever was scanned
\* earlier, the scan returns what scanning that file alone gives.
C25_ScanAloneEveryTime ==
    ScanFinished => returned[Len(returned)] = ScanAlone(source)

C25_Witness ==
    /\ ScanFinished
    /\ Len(returned) = 2
    /\ source \in OtherFiles
    /\ returned[1] # <<>>
    /\ returned[2] # <<>>
    /\ returned[2] # returned[1]

----------------------------------------------------------------------------
(* Properties of a batch scanned side by side, under SpecBatch *)

RECURSIVE Sequential(_)
\* The violation list of the sequential scan: file, then node.
Sequential(files) ==
    IF files = <<>> THEN <<>>
    ELSE Tagged(Head(files).path, ScanAlone(Head(files))) \o Sequential(Tail(files))

InPathOrder(files) ==
    \A i, j \in DOMAIN files : i < j => PathRank(files[i].path) < PathRank(files[j].path)

\* C26, as stated: scanning the files of a batch concurrently in any
\* interleaving and then stably re-sorting the merged violations by file path
\* yields the same violation list as the sequential file-then-node scan.
C26_ParallelIsSequential ==
    batch_pc = "sorted" => batch_out = Sequential(batch_files)

\* C26, amended: the re-sorted list of the concurrent scans is the list of the
\* sequential scan whenever the sequential scan takes the files in ascending
\* path order; in every case it holds each file's violations in that file's
\* own order, file after file in ascending path order.
C26_ParallelIsSequentialInPathOrder ==
    batch_pc = "sorted" =>
        /\ InPathOrder(batch_files) => batch_out = Sequential(batch_files)
        /\ \A k \in DOMAIN batch_files :
              SelectSeq(batch_out, LAMBDA v : v.file_path = batch_files[k].path)
                = Tagged(batch_files[k].path, ScanAlone(batch_files[k]))
        /\ \A i, j \in DOMAIN batch_out :
              i < j => PathRank(batch_out[i].file_path) <= PathRank(batch_out[j].file_path)
        /\ Len(batch_out) = Len(merged)

C26_Witness ==
    /\ batch_pc = "sorted"
    /\ Len(batch_files) = 2
    /\ InPathOrder(batch_files)
    /\ merged # batch_out
    /\ \E i \in DOMAIN workers : Len(workers[i].signals) = 2

====
